---- MODULE Spec2Model ----
(***************************************************************************)
(* A model of build.py: the script that turns a nested org-mode tree into  *)
(* a build.ninja file and then runs ninja on it.                           *)
(*                                                                         *)
(* Strings are sequences of one-character strings, so that str.replace,    *)
(* PurePath.suffix and PurePath.with_suffix are computed character by      *)
(* character.  A path is the sequence of its parts (pathlib's .parts); an  *)
(* absolute path starts with the part <<"/">>.                             *)
(*                                                                         *)
(* The source tree is a set of entries (paths relative to org_dir).  The   *)
(* script never asks whether an entry is a regular file or a directory:    *)
(* rglob yields every entry whose name matches, and so does the model.     *)
(***************************************************************************)
EXTENDS Integers, Sequences, FiniteSets, TLC

\* ------------------------------------------------------------------ bounds
\* The largest number of entries in the source tree.
MaxFiles == 2
\* The number of times the script is run on the same tree.
MaxRuns == 2

\* ----------------------------------------------------------------- strings
ROOT == <<"/">>
ORG == <<".", "o", "r", "g">>
MD == <<".", "m", "d">>
content == <<"c", "o", "n", "t", "e", "n", "t">>
posts == <<"p", "o", "s", "t", "s">>
notes == <<"n", "o", "t", "e", "s">>

\* str.endswith
EndsWith(s, t) ==
    /\ Len(s) >= Len(t)
    /\ SubSeq(s, Len(s) - Len(t) + 1, Len(s)) = t

\* str.rfind(".") + 1: the 1-based place of the last dot, 0 when there is none.
LastDot(name) ==
    LET dots == {k \in 1..Len(name) : name[k] = "."}
    IN  IF dots = {} THEN 0 ELSE CHOOSE k \in dots : \A m \in dots : m <= k

\* PurePath.suffix of a name: from the last dot on, unless that dot is the
\* first or the last character of the name.
Suffix(name) ==
    LET k == LastDot(name)
    IN  IF 1 < k /\ k < Len(name) THEN SubSeq(name, k, Len(name)) ELSE <<>>

\* PurePath.with_suffix: the last part with its suffix replaced; a name that
\* has no suffix gets the new one appended.
with_suffix(path, suffix) ==
    LET name == path[Len(path)]
        old == Suffix(name)
        new == IF old = <<>> THEN name \o suffix
               ELSE SubSeq(name, 1, Len(name) - Len(old)) \o suffix
    IN  [path EXCEPT ![Len(path)] = new]

\* PurePath.relative_to: the parts of f after those of base.
relative_to(f, base) == SubSeq(f, Len(base) + 1, Len(f))

\* str(path) of an absolute path.
RECURSIVE JoinParts(_)
JoinParts(parts) ==
    IF parts = <<>> THEN <<>>
    ELSE <<"/">> \o Head(parts) \o JoinParts(Tail(parts))

Str(path) == IF Len(path) = 1 THEN ROOT ELSE JoinParts(Tail(path))

\* str.replace(" ", "$ ")
RECURSIVE Replace(_)
Replace(s) ==
    IF s = <<>> THEN <<>>
    ELSE (IF Head(s) = " " THEN <<"$", " ">> ELSE <<Head(s)>>) \o Replace(Tail(s))

\* A variant of _ninja_escape that forgets the replace.
ninja_escape_unescaped(path) == Str(path)

\* _ninja_escape
ninja_escape(path) == Replace(Str(path))

\* _make_in_out: <<input_file, output_file>>
make_in_out(f, org_dir, out_dir) ==
    LET rf == relative_to(f, org_dir)
    IN  <<ninja_escape(org_dir \o rf), ninja_escape(out_dir \o with_suffix(rf, MD))>>

\* str(args.j) for the values of -j the model draws.
IntStr(n) == CASE n = 0 -> "0" [] n = 1 -> "1" [] n = 2 -> "2" [] OTHER -> "3"

\* ------------------------------------------------------------------ inputs
\* The entries a source tree is drawn from, relative to org_dir.
Candidates ==
    { <<notes, <<"a">> \o ORG>>,
      <<notes, <<"a">> \o MD>>,
      <<<<"r", "e", "a", "d", "m", "e">> \o MD>>,
      <<<<"x", " ", "y", " ", "z">> \o ORG>>,
      <<ORG>>,
      <<ORG \o ORG>> }

Trees == {t \in SUBSET Candidates : Cardinality(t) <= MaxFiles}

OutDir1 == <<ROOT, <<"a">>, <<"b">>, content, posts>>
OutDir2 == <<ROOT, <<"a">>, <<"b">>, content, <<"x">>, content, <<"y">>>>
OutDir3 == <<ROOT, <<"a">>, <<"b">>, posts>>
OutDir4 == <<ROOT, <<"m", "y", " ", "s">>, content, posts>>
OutDirs == {OutDir1, OutDir2, OutDir3, OutDir4}

OrgDirs == {<<ROOT, <<"o">>>>, <<ROOT, <<"m", " ", "o">>>>}

\* args.j: <<>> when -j is left out, <<n>> when -j n is given.
Jobs == {<<>>, <<0>>, <<2>>}

\* The exit codes the model lets ninja return.
ExitCodes == {0, 1, 2}

Args ==
    [org_dir : OrgDirs, out_dir : OutDirs, obsidian : BOOLEAN, j : Jobs]

\* ------------------------------------------------------------------- state
VARIABLES
    args,            \* the parsed command line, with both paths resolved
    tree,            \* the entries under org_dir
    pc,              \* where the script is
    ci,              \* 0-based index of the last "content" part; -1 while unset
    hugo_dir,        \* out_dir.parts[0:ci]; <<>> while unset
    outDirExists,    \* whether out_dir exists on disk
    cwd,             \* the process's working directory; <<>> for where it started
    org_files_input, \* what the *.org generator has yet to yield
    md_files_input,  \* what the *.md generator has yet to yield
    yielded,         \* the entries the two scans have yielded so far, in order
    fileState,       \* build.ninja: "absent", "open" or "closed"
    ninja_file,      \* the declarations written to build.ninja, in order
    out_files_main,  \* the list of output files claimed by the org loop
    cmd,             \* the ninja command line
    calls,           \* the invocations of ninja made so far
    stdout,          \* what the script printed
    exitCode,        \* the script's own exit status; -1 while it runs
    run,             \* which run of the script this is
    prev             \* build.ninja as the previous run left it

vars ==
    <<args, tree, pc, ci, hugo_dir, outDirExists, cwd, org_files_input,
      md_files_input, yielded, fileState, ninja_file, out_files_main, cmd,
      calls, stdout, exitCode, run, prev>>

Init ==
    /\ args \in Args
    /\ tree \in Trees
    /\ pc = "start"
    /\ ci = -1
    /\ hugo_dir = <<>>
    /\ outDirExists = FALSE
    /\ cwd = <<>>
    /\ org_files_input = {}
    /\ md_files_input = {}
    /\ yielded = <<>>
    /\ fileState = "absent"
    /\ ninja_file = <<>>
    /\ out_files_main = <<>>
    /\ cmd = <<>>
    /\ calls = <<>>
    /\ stdout = <<>>
    /\ exitCode = -1
    /\ run = 1
    /\ prev = <<>>

\* ---------------------------------------------------------------- helpers
\* Whether some part of the path is "content".
HasMarker(parts) == \E k \in 1..Len(parts) : parts[k] = content

\* A variant of the marker search that scans forward: the first "content".
FirstMarker(parts) ==
    (CHOOSE k \in 1..Len(parts) :
        /\ parts[k] = content
        /\ \A m \in 1..Len(parts) : parts[m] = content => k <= m) - 1

\* next(i for i in range(len(parts) - 1, -1, -1) if parts[i] == "content"):
\* the 0-based index of the last "content" part.
LastMarker(parts) ==
    (CHOOSE k \in 1..Len(parts) :
        /\ parts[k] = content
        /\ \A m \in 1..Len(parts) : parts[m] = content => m <= k) - 1

\* Path(*out_dir.parts[0:ci])
SitePath(parts, i) == SubSeq(parts, 1, i)

\* Path.rglob("*" + ext): every entry under root whose name ends with ext.
rglob(root, ext) ==
    {root \o e : e \in {x \in tree : EndsWith(x[Len(x)], ext)}}

\* The two rule declarations written when build.ninja is opened.
RuleDecls ==
    << [decl |-> "rule", name |-> "org2md",
        command |-> [tool |-> "emacs -nw --batch",
                     load |-> <<"init-tiny.el", "publish.el">>,
                     org_dir |-> Str(args.org_dir),
                     in |-> "$in_",
                     hugo_dir |-> Str(hugo_dir),
                     out |-> "$out_",
                     post_proc |-> IF args.obsidian
                                   THEN " && obs_postproc.py $out" ELSE ""],
        description |-> "org2md $in"],
       [decl |-> "rule", name |-> "COPY",
        command |-> [tool |-> "cp $in $out"],
        description |-> ""] >>

\* build {output_file}: org2md {input_file}, with its in_ and out_ variables
ConvertDecl(io) ==
    [decl |-> "build", out |-> io[2], rule |-> "org2md", in |-> io[1],
     vars |-> << <<"in_", io[1]>>, <<"out_", io[2]>> >>]

\* build {output_file}: COPY {input_file}
CopyDecl(io) ==
    [decl |-> "build", out |-> io[2], rule |-> "COPY", in |-> io[1],
     vars |-> <<>>]

\* A variant of the membership test that never finds the output claimed.
NeverClaimed(output_file) == FALSE

\* output_file in out_files_main
Claimed(output_file) ==
    \E k \in 1..Len(out_files_main) : out_files_main[k] = output_file

\* A variant in which the org loop may be left before its scan is exhausted.
OrgLoopLeftEarly == TRUE

\* The for loop over org_files_input ends when the generator is exhausted.
OrgLoopDone == org_files_input = {}

\* cmd = ["ninja"], extended with -j only if args.j is truthy.
NinjaCmd(j) ==
    IF j # <<>> /\ j[1] # 0 THEN <<"ninja", "-j", IntStr(j[1])>> ELSE <<"ninja">>

\* ----------------------------------------------------------------- actions
\* Lines 39-47 and 54: the marker is found and hugo_dir is derived from it.
FindMarker ==
    /\ pc = "start"
    /\ HasMarker(args.out_dir)
    /\ ci' = LastMarker(args.out_dir)
    /\ hugo_dir' = SitePath(args.out_dir, LastMarker(args.out_dir))
    /\ pc' = "mkdir"
    /\ UNCHANGED <<args, tree, outDirExists, cwd, org_files_input,
                   md_files_input, yielded, fileState, ninja_file,
                   out_files_main, cmd, calls, stdout, exitCode, run, prev>>

\* A variant of the marker check placed after out_dir.mkdir: the directory is
\* there by the time the script prints its advice and exits.
MissingMarkerAfterMkdir ==
    /\ pc = "start"
    /\ ~HasMarker(args.out_dir)
    /\ outDirExists' = TRUE
    /\ stdout' = Append(stdout, "Your out_dir argument should contain the 'content' path component")
    /\ pc' = "exited"
    /\ exitCode' = 0
    /\ UNCHANGED <<args, tree, ci, hugo_dir, cwd, org_files_input,
                   md_files_input, yielded, fileState, ninja_file,
                   out_files_main, cmd, calls, run, prev>>

\* Lines 48-52: no "content" part; the script prints its advice and exit()s.
MissingMarker ==
    /\ pc = "start"
    /\ ~HasMarker(args.out_dir)
    /\ stdout' = Append(stdout, "Your out_dir argument should contain the 'content' path component")
    /\ pc' = "exited"
    /\ exitCode' = 0
    /\ UNCHANGED <<args, tree, ci, hugo_dir, outDirExists, cwd, org_files_input,
                   md_files_input, yielded, fileState, ninja_file,
                   out_files_main, cmd, calls, run, prev>>

\* Lines 64-73: out_dir is created (or is there already), the process moves
\* into it, and the two lazy scans are set up.
MakeOutDir ==
    /\ pc = "mkdir"
    /\ outDirExists' = TRUE
    /\ cwd' = args.out_dir
    /\ org_files_input' = rglob(args.org_dir, ORG)
    /\ md_files_input' = rglob(args.org_dir, MD)
    /\ pc' = "open"
    /\ UNCHANGED <<args, tree, ci, hugo_dir, yielded, fileState, ninja_file,
                   out_files_main, cmd, calls, stdout, exitCode, run, prev>>

\* Line 64: mkdir raises (no permission, a file in the way); the exception is
\* not caught and the interpreter ends the script with status 1.
MakeOutDirFails ==
    /\ pc = "mkdir"
    /\ ~outDirExists
    /\ pc' = "crashed"
    /\ exitCode' = 1
    /\ UNCHANGED <<args, tree, ci, hugo_dir, outDirExists, cwd, org_files_input,
                   md_files_input, yielded, fileState, ninja_file,
                   out_files_main, cmd, calls, stdout, run, prev>>

\* Lines 93-105: build.ninja is opened for writing (truncated), the two rules
\* are written, and out_files_main starts empty.
WriteRules ==
    /\ pc = "open"
    /\ fileState' = "open"
    /\ ninja_file' = RuleDecls
    /\ out_files_main' = <<>>
    /\ pc' = "scan_org"
    /\ UNCHANGED <<args, tree, ci, hugo_dir, outDirExists, cwd, org_files_input,
                   md_files_input, yielded, cmd, calls, stdout, exitCode, run,
                   prev>>

\* Lines 106-118: one turn of the org loop, on whichever entry the scan
\* yields next (os.scandir's order is arbitrary).
OrgStep ==
    /\ pc = "scan_org"
    /\ \E f \in org_files_input :
          LET io == make_in_out(f, args.org_dir, args.out_dir)
          IN  /\ org_files_input' = org_files_input \ {f}
              /\ yielded' = Append(yielded, <<"org", f>>)
              /\ out_files_main' = Append(out_files_main, io[2])
              /\ ninja_file' = Append(ninja_file, ConvertDecl(io))
    /\ UNCHANGED <<args, tree, pc, ci, hugo_dir, outDirExists, cwd,
                   md_files_input, fileState, cmd, calls, stdout, exitCode,
                   run, prev>>

\* Line 106: the org scan is exhausted; the md loop (line 124) is next.
OrgDone ==
    /\ pc = "scan_org"
    /\ OrgLoopDone
    /\ pc' = "scan_md"
    /\ UNCHANGED <<args, tree, ci, hugo_dir, outDirExists, cwd, org_files_input,
                   md_files_input, yielded, fileState, ninja_file,
                   out_files_main, cmd, calls, stdout, exitCode, run, prev>>

\* Lines 124-131: one turn of the md loop; the entry is copied across unless
\* the org loop already claimed its output file.
MdStep ==
    /\ pc = "scan_md"
    /\ \E f \in md_files_input :
          LET io == make_in_out(f, args.org_dir, args.out_dir)
          IN  /\ md_files_input' = md_files_input \ {f}
              /\ yielded' = Append(yielded, <<"md", f>>)
              /\ ninja_file' = IF Claimed(io[2]) THEN ninja_file
                               ELSE Append(ninja_file, CopyDecl(io))
    /\ UNCHANGED <<args, tree, pc, ci, hugo_dir, outDirExists, cwd,
                   org_files_input, fileState, out_files_main, cmd, calls,
                   stdout, exitCode, run, prev>>

\* Lines 124 and 134-136: the md scan is exhausted, the with block closes
\* build.ninja, and the ninja command line is put together.
MdDone ==
    /\ pc = "scan_md"
    /\ md_files_input = {}
    /\ fileState' = "closed"
    /\ cmd' = NinjaCmd(args.j)
    /\ pc' = "invoke"
    /\ UNCHANGED <<args, tree, ci, hugo_dir, outDirExists, cwd, org_files_input,
                   md_files_input, yielded, ninja_file, out_files_main, calls,
                   stdout, exitCode, run, prev>>

\* Line 138: subprocess.call(cmd).  Its return value is dropped, and the
\* script runs off its end: the interpreter exits with status 0.
Invoke ==
    /\ pc = "invoke"
    /\ \E rc \in ExitCodes :
          calls' = Append(calls, [cmd |-> cmd, cwd |-> cwd, rc |-> rc,
                                  file |-> fileState, graph |-> ninja_file])
    /\ exitCode' = 0
    /\ pc' = "done"
    /\ UNCHANGED <<args, tree, ci, hugo_dir, outDirExists, cwd, org_files_input,
                   md_files_input, yielded, fileState, ninja_file,
                   out_files_main, cmd, stdout, run, prev>>

\* The script is run again with the same arguments on the unchanged tree.
\* out_dir and the build.ninja of the run before are still on disk.
Rerun ==
    /\ pc = "done"
    /\ run < MaxRuns
    /\ run' = run + 1
    /\ prev' = ninja_file
    /\ pc' = "start"
    /\ ci' = -1
    /\ hugo_dir' = <<>>
    /\ cwd' = <<>>
    /\ org_files_input' = {}
    /\ md_files_input' = {}
    /\ yielded' = <<>>
    /\ out_files_main' = <<>>
    /\ cmd' = <<>>
    /\ calls' = <<>>
    /\ stdout' = <<>>
    /\ exitCode' = -1
    /\ UNCHANGED <<args, tree, outDirExists, fileState, ninja_file>>

Next ==
    \/ FindMarker
    \/ MissingMarker
    \/ MakeOutDir
    \/ MakeOutDirFails
    \/ WriteRules
    \/ OrgStep
    \/ OrgDone
    \/ MdStep
    \/ MdDone
    \/ Invoke
    \/ Rerun

Spec == Init /\ [][Next]_vars

\* ------------------------------------------------- vocabulary of the claims
\* How ninja reads a path token or a variable value: "$ " is a space, "$$" a
\* dollar sign, "$:" a colon; every other character stands for itself.
RECURSIVE UnescapeFrom(_, _)
UnescapeFrom(t, k) ==
    IF k > Len(t) THEN <<>>
    ELSE IF t[k] = "$" /\ k < Len(t) /\ t[k + 1] \in {" ", "$", ":"}
         THEN <<t[k + 1]>> \o UnescapeFrom(t, k + 2)
         ELSE <<t[k]>> \o UnescapeFrom(t, k + 1)

Unescape(t) == UnescapeFrom(t, 1)

\* The number of occurrences of character c in s.
CountChar(s, c) == Cardinality({k \in 1..Len(s) : s[k] = c})

\* No space of the token is left for ninja to read as a separator.
NoBareSpace(t) ==
    \A k \in 1..Len(t) : t[k] = " " => (k > 1 /\ t[k - 1] = "$")

\* An entry in the authoring format, and one already in the target format.
Primary(e) == EndsWith(e[Len(e)], ORG)
PassThrough(e) == EndsWith(e[Len(e)], MD)

\* The relative path with the authoring extension replaced by the target one.
ReplaceExt(e) ==
    LET name == e[Len(e)]
    IN  [e EXCEPT ![Len(e)] = SubSeq(name, 1, Len(name) - Len(ORG)) \o MD]

\* The places of the build-edge declarations in build.ninja, by rule.
Edges(rule) ==
    {k \in 1..Len(ninja_file) :
        ninja_file[k].decl = "build" /\ ninja_file[k].rule = rule}
AllEdges == Edges("org2md") \cup Edges("COPY")

\* The edges of a rule whose input is entry e of the tree.
EdgesFrom(rule, e) ==
    {k \in Edges(rule) : Unescape(ninja_file[k].in) = Str(args.org_dir \o e)}

\* The output path the script maps entry e to, as written to build.ninja.
OutputOf(e) == make_in_out(args.org_dir \o e, args.org_dir, args.out_dir)[2]

\* The graph is complete: both loops have run.
Generated == pc \in {"invoke", "done"}

\* ------------------------------------------------------------------ claims
\* C1: once the graph is generated, every Primary entry of the tree has
\* exactly one org2md edge, whose input is the entry's absolute path and whose
\* output is out_dir joined with the entry's relative path with .org replaced
\* by .md; and every org2md edge comes from a Primary entry.
C1_PrimaryEdges ==
    Generated =>
        /\ \A e \in tree : Primary(e) =>
              /\ Cardinality(EdgesFrom("org2md", e)) = 1
              /\ \A k \in EdgesFrom("org2md", e) :
                    Unescape(ninja_file[k].out) = Str(args.out_dir \o ReplaceExt(e))
        /\ \A k \in Edges("org2md") :
              \E e \in tree : Primary(e) /\ k \in EdgesFrom("org2md", e)

\* C2: once the graph is generated, a PassThrough entry has exactly one COPY
\* edge if no Primary entry of the tree maps to its output path, and no edge
\* of either rule if one does; and every COPY edge comes from a PassThrough
\* entry.
C2_CopyIffUnclaimed ==
    Generated =>
        /\ \A m \in tree : PassThrough(m) =>
              /\ Cardinality(EdgesFrom("COPY", m)) =
                    (IF \E o \in tree : Primary(o) /\ OutputOf(o) = OutputOf(m)
                     THEN 0 ELSE 1)
              /\ EdgesFrom("org2md", m) = {}
              /\ \A k \in EdgesFrom("COPY", m) : ninja_file[k].out = OutputOf(m)
        /\ \A k \in Edges("COPY") :
              \E m \in tree : PassThrough(m) /\ k \in EdgesFrom("COPY", m)

\* C2's case: notes/a.org and notes/a.md together, with the graph generated:
\* one org2md edge and no COPY edge.
C2_Witness ==
    /\ pc = "done"
    /\ tree = {<<notes, <<"a">> \o ORG>>, <<notes, <<"a">> \o MD>>}
    /\ Cardinality(Edges("org2md")) = 1
    /\ Edges("COPY") = {}

\* C3: no two build edges of build.ninja name the same output path.
C3_OutputsUnique ==
    \A i \in AllEdges : \A k \in AllEdges :
        i # k => ninja_file[i].out # ninja_file[k].out

C5_EscapedPaths ==
    \A k \in AllEdges :
        LET d == ninja_file[k]
            path_in == Unescape(d.in)
            path_out == Unescape(d.out)
            spaces_in == CountChar(path_in, " ")
            spaces_out == CountChar(path_out, " ")
        IN  /\ \E e \in tree :
                  /\ path_in = Str(args.org_dir \o e)
                  /\ path_out = Str(args.out_dir \o with_suffix(e, MD))
            /\ NoBareSpace(d.in)
            /\ NoBareSpace(d.out)
            /\ CountChar(d.in, "$") = spaces_in
            /\ CountChar(d.out, "$") = spaces_out
            /\ Len(d.in) = Len(path_in) + spaces_in
            /\ Len(d.out) = Len(path_out) + spaces_out
            /\ \A v \in 1..Len(d.vars) : d.vars[v][2] \in {d.in, d.out}
            /\ d.rule = "org2md" =>
                  d.vars = << <<"in_", d.in>>, <<"out_", d.out>> >>

\* C5's case: an edge whose input path holds three spaces has been written.
C5_Witness ==
    \E k \in AllEdges :
        /\ CountChar(Unescape(ninja_file[k].in), " ") = 3
        /\ CountChar(ninja_file[k].in, "$") = 3

\* C6 as stated: the site root of /a/b/content/posts is /a/b, that of
\* /a/b/content/x/content/y is /a/b/x, and /a/b/posts ends the script with
\* its missing-marker message.
C6_AsStated ==
    pc # "start" =>
        /\ args.out_dir = OutDir1 => hugo_dir = <<ROOT, <<"a">>, <<"b">>>>
        /\ args.out_dir = OutDir2 => hugo_dir = <<ROOT, <<"a">>, <<"b">>, <<"x">>>>
        /\ args.out_dir = OutDir3 => (pc = "exited" /\ stdout # <<>>)

\* C6, amended: the site root is everything before the last "content" part:
\* /a/b for /a/b/content/posts, /a/b/content/x for /a/b/content/x/content/y;
\* /a/b/posts ends the script with its missing-marker message, no site root
\* derived.
C6_LastMarker ==
    pc # "start" =>
        /\ args.out_dir = OutDir1 => (ci = 3 /\ hugo_dir = <<ROOT, <<"a">>, <<"b">>>>)
        /\ args.out_dir = OutDir2 =>
              (ci = 5 /\ hugo_dir = <<ROOT, <<"a">>, <<"b">>, content, <<"x">>>>)
        /\ args.out_dir = OutDir3 =>
              (pc = "exited" /\ stdout # <<>> /\ ci = -1 /\ hugo_dir = <<>>)

\* C6's case: the site root of /a/b/content/x/content/y has been derived.
C6_Witness ==
    /\ pc = "mkdir"
    /\ args.out_dir = OutDir2
    /\ Str(hugo_dir) = <<"/", "a", "/", "b", "/">> \o content \o <<"/", "x">>

\* C7: when the script ends for want of a marker, out_dir has not been
\* created, no scan has yielded anything or been set up, build.ninja has not
\* been opened or written, and ninja has not been invoked; when it ends
\* because out_dir could not be created, likewise no scan, no build.ninja, no
\* ninja.
C7_FatalErrorsAbort ==
    /\ pc = "exited" =>
          /\ ~HasMarker(args.out_dir)
          /\ ~outDirExists
          /\ yielded = <<>> /\ org_files_input = {} /\ md_files_input = {}
          /\ fileState = "absent" /\ ninja_file = <<>>
          /\ calls = <<>>
    /\ pc = "crashed" =>
          /\ ~outDirExists
          /\ yielded = <<>> /\ org_files_input = {} /\ md_files_input = {}
          /\ fileState = "absent" /\ ninja_file = <<>>
          /\ calls = <<>>
    /\ ~HasMarker(args.out_dir) => pc \in {"start", "exited"}

\* C7's case: a non-empty tree, an out_dir without marker, the script ended.
C7_Witness ==
    /\ pc = "exited"
    /\ args.out_dir = OutDir3
    /\ tree # {}
    /\ exitCode # -1

\* C8: when the script has run ninja and ended, its own exit status is the
\* one ninja returned.
C8_ExitCodePropagated ==
    pc = "done" => exitCode = calls[Len(calls)].rc

\* C9: when a PassThrough entry is examined, the output of every Primary
\* entry of the tree is in out_files_main already; the org scan yields all
\* its entries before the md scan yields any; and in build.ninja the rules
\* come before every edge and every org2md edge before every COPY edge.
C9_TwoPhases ==
    /\ (pc = "scan_md" \/ \E k \in 1..Len(yielded) : yielded[k][1] = "md") =>
          \A e \in tree : Primary(e) =>
              \E k \in 1..Len(out_files_main) : out_files_main[k] = OutputOf(e)
    /\ \A i \in 1..Len(yielded) : \A k \in 1..Len(yielded) :
          (yielded[i][1] = "md" /\ yielded[k][1] = "org") => k < i
    /\ \A i \in 1..Len(ninja_file) : \A k \in AllEdges :
          ninja_file[i].decl = "rule" => i < k
    /\ \A i \in Edges("org2md") : \A k \in Edges("COPY") : i < k
    /\ Len(ninja_file) >= 2 =>
          (ninja_file[1].decl = "rule" /\ ninja_file[2].decl = "rule")

\* C9's case: a tree with a Primary and an unrelated PassThrough entry, both
\* scanned and both with an edge.
C9_Witness ==
    /\ pc = "scan_md"
    /\ Len(yielded) = 2
    /\ Edges("org2md") # {}
    /\ Edges("COPY") # {}

\* C10: when the script has ended normally, ninja has been invoked exactly
\* once, from out_dir, on the complete and closed build.ninja, with -j N if
\* -j N was given (N = 0 included) and with no -j otherwise.
C10_InvokedOnceWithJobs ==
    pc = "done" =>
        /\ Len(calls) = 1
        /\ calls[1].file = "closed"
        /\ calls[1].graph = ninja_file
        /\ calls[1].cwd = args.out_dir
        /\ calls[1].cmd = IF args.j = <<>> THEN <<"ninja">>
                          ELSE <<"ninja", "-j", IntStr(args.j[1])>>

====
